---- MODULE Spec2Model ----
(***************************************************************************)
(* The dynamic semantics of the rpy interpreter                            *)
(* (src/src/interpreter/interpreter.rs): the expression evaluator `eval`,  *)
(* the statement executor `execute`, the call protocol `call` and the      *)
(* scope-chain `lookup`, over the Environment of frames.                   *)
(*                                                                         *)
(* The interpreter is a family of mutually recursive functions; each is an *)
(* operator of the same name here.  A function returning                   *)
(* Result<T, ErrorMessage> returns a record                                *)
(*     [tag |-> "Ok", val |-> .., w |-> ..]     Ok(val)                    *)
(*     [tag |-> "Err", msg |-> .., w |-> ..]    Err(msg)                   *)
(*     [tag |-> "Panic", msg |-> .., w |-> ..]  the thread panicked        *)
(*                                               (unreachable!(), unwrap   *)
(*                                               of None)                  *)
(*     [tag |-> "Diverge", w |-> ..]            no result within the       *)
(*                                               model's loop/depth bounds *)
(* The world w = [fs, out, trace] is what a call does besides returning:   *)
(* the files it wrote, the lines it printed, and the sequence of eval and  *)
(* execute calls it made (one event per call, on entry).                   *)
(***************************************************************************)
EXTENDS Integers, Sequences, FiniteSets, TLC

VARIABLES env, fs, out, last, trace, pc, steps

vars == <<env, fs, out, last, trace, pc, steps>>

(***************************************************************************)
(* Bounds of the model.                                                    *)
(***************************************************************************)
\* operations one run of the driver performs
MaxSteps == 3
\* iterations of one while loop before the model gives up on it
MaxLoop == 4
\* frames on the scope chain before the model gives up on a call
MaxDepth == 5

(***************************************************************************)
(* i32 and f64.                                                            *)
(***************************************************************************)
\* i32::MAX and i32::MIN, the range of Expression::CInt and of `as i32`
I32Max == 2147483647
I32Min == -2147483647 - 1

(* An f64 is one of                                                        *)
(*   [cls |-> "fin", num, den]  the finite value num/den (den # 0; in      *)
(*                              lowest terms with den > 0 unless num or    *)
(*                              den is I32Min)                             *)
(*   [cls |-> "big", sign]      a finite value above I32Max (sign 1) or    *)
(*                              below I32Min (sign -1)                     *)
(*   [cls |-> "inf", sign]      +infinity, -infinity                       *)
(*   [cls |-> "nan"]            NaN                                        *)
(*   [cls |-> "unmodelled"]     an operation on "big" the model does not   *)
(*                              follow                                     *)
(* Rounding of finite results to 53 bits and the sign of zero are not      *)
(* modelled: sums, differences and products of i32 values below 2^53 are   *)
(* exact in f64, and a quotient of two i32 values is never rounded across  *)
(* an integer, so the cast back to i32 is exact.                           *)
Fin(n, d) == [cls |-> "fin", num |-> n, den |-> d]
Big(s) == [cls |-> "big", sign |-> s]
Inf(s) == [cls |-> "inf", sign |-> s]
NaN == [cls |-> "nan"]
Unmodelled == [cls |-> "unmodelled"]

Abs(n) == IF n < 0 THEN -n ELSE n

Sgn(n) == IF n > 0 THEN 1 ELSE IF n < 0 THEN -1 ELSE 0

RECURSIVE Gcd(_, _)
Gcd(a, b) == IF b = 0 THEN a ELSE Gcd(b, a % b)

\* the finite f64 n/d (d # 0) in its canonical form
Norm(n, d) ==
    IF n = I32Min \/ d = I32Min THEN Fin(n, d)
    ELSE LET g == Gcd(Abs(n), Abs(d))
             s == IF d < 0 THEN -1 ELSE 1
         IN  Fin(s * (n \div g), s * (d \div g))

\* `v as f64` for an i32 v: exact
as_f64(v) == Fin(v, 1)

IsIntegral(a) == a.cls = "fin" /\ a.den = 1

FSign(a) == IF a.cls = "fin" THEN Sgn(a.num) * Sgn(a.den)
            ELSE IF a.cls \in {"big", "inf"} THEN a.sign ELSE 0

\* the integer quotient n/d (d # 0) rounded toward zero, saturated to i32
\* (only I32Min / -1 saturates)
RECURSIVE TruncDiv(_, _)
TruncDiv(n, d) ==
    IF d = 1 THEN n
    ELSE IF d = -1 THEN (IF n = I32Min THEN I32Max ELSE -n)
    ELSE IF d = I32Min THEN (IF n = I32Min THEN 1 ELSE 0)
    ELSE IF d < 0 THEN -TruncDiv(n, -d)
    ELSE IF n >= 0 \/ n % d = 0 THEN n \div d
    ELSE (n \div d) + 1

\* `x as i32` for an f64 x: rounds toward zero, saturates at the bounds of
\* i32, and maps NaN to 0 (Rust's float-to-int cast)
as_i32(x) ==
    CASE x.cls = "nan" -> 0
      [] x.cls \in {"inf", "big"} -> IF x.sign > 0 THEN I32Max ELSE I32Min
      [] x.cls = "fin" -> TruncDiv(x.num, x.den)

\* a + b on f64
F64Add(a, b) ==
    CASE a.cls = "nan" \/ b.cls = "nan" -> NaN
      [] a.cls = "inf" /\ b.cls = "inf" -> IF a.sign = b.sign THEN a ELSE NaN
      [] a.cls = "inf" -> a
      [] b.cls = "inf" -> b
      [] IsIntegral(a) /\ IsIntegral(b) ->
            IF b.num > 0 /\ a.num > I32Max - b.num THEN Big(1)
            ELSE IF b.num < 0 /\ a.num < I32Min - b.num THEN Big(-1)
            ELSE Fin(a.num + b.num, 1)
      [] a.cls = "fin" /\ b.cls = "fin" ->
            Norm(a.num * b.den + b.num * a.den, a.den * b.den)
      [] OTHER -> Unmodelled

\* -a on f64
F64Neg(a) ==
    CASE a.cls = "nan" -> NaN
      [] a.cls \in {"inf", "big"} -> [a EXCEPT !.sign = -a.sign]
      [] a.cls = "fin" -> IF a.num = I32Min THEN Big(1) ELSE Fin(-a.num, a.den)
      [] OTHER -> Unmodelled

\* a - b on f64
F64Sub(a, b) ==
    IF IsIntegral(a) /\ IsIntegral(b)
    THEN IF b.num < 0 /\ a.num > I32Max + b.num THEN Big(1)
         ELSE IF b.num > 0 /\ a.num < I32Min + b.num THEN Big(-1)
         ELSE Fin(a.num - b.num, 1)
    ELSE F64Add(a, F64Neg(b))

\* whether the product of the i32 values m and n lies outside i32
MulOverflows(m, n) ==
    /\ m # 0
    /\ n # 0
    /\ \/ (m = -1 /\ n = I32Min) \/ (n = -1 /\ m = I32Min)
       \/ /\ m # -1 /\ n # -1
          /\ IF (m > 0) = (n > 0)
             THEN (IF m > 0 THEN m > I32Max \div n ELSE m < TruncDiv(I32Max, n))
             ELSE (IF m > 0 THEN n < TruncDiv(I32Min, m) ELSE m < TruncDiv(I32Min, n))

\* a * b on f64
F64Mul(a, b) ==
    CASE a.cls = "nan" \/ b.cls = "nan" -> NaN
      [] a.cls = "inf" \/ b.cls = "inf" ->
            IF FSign(a) = 0 \/ FSign(b) = 0 THEN NaN ELSE Inf(FSign(a) * FSign(b))
      [] IsIntegral(a) /\ IsIntegral(b) ->
            IF MulOverflows(a.num, b.num) THEN Big(Sgn(a.num) * Sgn(b.num))
            ELSE Fin(a.num * b.num, 1)
      [] a.cls = "fin" /\ b.cls = "fin" -> Norm(a.num * b.num, a.den * b.den)
      [] OTHER -> Unmodelled

\* a / b on f64: x/0 is an infinity (NaN for 0/0), never an error
F64Div(a, b) ==
    CASE a.cls = "nan" \/ b.cls = "nan" -> NaN
      [] a.cls = "inf" /\ b.cls = "inf" -> NaN
      [] a.cls = "inf" -> Inf(a.sign * (IF FSign(b) < 0 THEN -1 ELSE 1))
      [] b.cls = "inf" -> Fin(0, 1)
      [] b.cls = "fin" /\ b.num = 0 ->
            IF FSign(a) = 0 THEN NaN ELSE Inf(FSign(a))
      [] IsIntegral(a) /\ IsIntegral(b) ->
            IF a.num = I32Min /\ b.num = -1 THEN Big(1) ELSE Norm(a.num, b.num)
      [] a.cls = "fin" /\ b.cls = "fin" -> Norm(a.num * b.den, a.den * b.num)
      [] OTHER -> Unmodelled

\* a < b on f64 (false when either is NaN)
F64Lt(a, b) ==
    CASE a.cls = "nan" \/ b.cls = "nan" -> FALSE
      [] IsIntegral(a) /\ IsIntegral(b) -> a.num < b.num
      [] a.cls = "fin" /\ b.cls = "fin" -> a.num * b.den < b.num * a.den
      [] a.cls = "fin" -> b.sign > 0
      [] b.cls = "fin" -> a.sign < 0
      [] a.cls = "inf" /\ b.cls = "inf" -> a.sign < b.sign
      [] a.cls = "inf" -> a.sign < 0
      [] b.cls = "inf" -> b.sign > 0
      [] OTHER -> a.sign < b.sign

\* a == b on f64 (false when either is NaN)
F64Eq(a, b) ==
    CASE a.cls = "nan" \/ b.cls = "nan" -> FALSE
      [] IsIntegral(a) /\ IsIntegral(b) -> a.num = b.num
      [] a.cls = "fin" /\ b.cls = "fin" -> a.num * b.den = b.num * a.den
      [] OTHER -> a = b

(***************************************************************************)
(* Abstract syntax (crate::ir::ast): an Expression or a Statement is a     *)
(* record whose field kind names the variant.  Declared types (the third   *)
(* field of Assignment, Function.kind, the type of a parameter) are never  *)
(* read by the interpreter and are left out.                               *)
(***************************************************************************)
None == [some |-> FALSE]
Some(x) == [some |-> TRUE, v |-> x]

CTrue == [kind |-> "CTrue"]
CFalse == [kind |-> "CFalse"]
CInt(i) == [kind |-> "CInt", v |-> i]
CReal(x) == [kind |-> "CReal", r |-> x]
CString(x) == [kind |-> "CString", s |-> x]
Bin(k, l, r) == [kind |-> k, lhs |-> l, rhs |-> r]
Add(l, r) == Bin("Add", l, r)
Sub(l, r) == Bin("Sub", l, r)
Mul(l, r) == Bin("Mul", l, r)
Div(l, r) == Bin("Div", l, r)
And(l, r) == Bin("And", l, r)
Or(l, r) == Bin("Or", l, r)
Not(e) == [kind |-> "Not", lhs |-> e]
EQ(l, r) == Bin("EQ", l, r)
GT(l, r) == Bin("GT", l, r)
LT(l, r) == Bin("LT", l, r)
GTE(l, r) == Bin("GTE", l, r)
LTE(l, r) == Bin("LTE", l, r)
Var(n) == [kind |-> "Var", name |-> n]
FuncCall(n, as) == [kind |-> "FuncCall", name |-> n, args |-> as]
ReadFile(e) == [kind |-> "ReadFile", path |-> e]
\* an Expression variant eval has no arm for (reading from standard input)
ReadInput == [kind |-> "ReadInput"]

Assignment(n, e) == [kind |-> "Assignment", name |-> n, exp |-> e]
IfThenElse(c, t, e) == [kind |-> "IfThenElse", cond |-> c, then |-> t, else |-> e]
While(c, b) == [kind |-> "While", cond |-> c, body |-> b]
Sequence(a, b) == [kind |-> "Sequence", s1 |-> a, s2 |-> b]
FuncDef(f) == [kind |-> "FuncDef", func |-> f]
Return(e) == [kind |-> "Return", exp |-> e]
WriteToFile(p, c) == [kind |-> "WriteToFile", path |-> p, content |-> c]
PrintStmt(e) == [kind |-> "Print", exp |-> e]
\* a Statement variant execute has no arm for
Pass == [kind |-> "Pass"]

\* Function { name, kind, params: Option<Vec<(Name, Type)>>, body: Option<Box<Statement>> }
Function(n, ps, b) == [name |-> n, params |-> ps, body |-> b]

(***************************************************************************)
(* EnvValue and the results of eval and execute.                           *)
(***************************************************************************)
Exp(e) == [tag |-> "Exp", exp |-> e]
Func(f) == [tag |-> "Func", func |-> f]

Continue(e) == [kind |-> "Continue", env |-> e]
ReturnFlow(v) == [kind |-> "Return", val |-> v]

Ok(v, w) == [tag |-> "Ok", val |-> v, w |-> w]
Err(m, w) == [tag |-> "Err", msg |-> m, w |-> w]
Panic(m, w) == [tag |-> "Panic", msg |-> m, w |-> w]
Diverge(w) == [tag |-> "Diverge", w |-> w]

\* the event a call of eval or execute leaves in the trace
Event(o, n) == [op |-> o, node |-> n]
Log(w, o, n) == [w EXCEPT !.trace = Append(@, Event(o, n))]

(***************************************************************************)
(* Environment: an arena of frames, each a name -> EnvValue mapping with   *)
(* an optional parent, and the current frame's key.  A frame's key is its  *)
(* index in the arena.                                                     *)
(***************************************************************************)
Frame_new(parent) == [variables |-> <<>>, parent_key |-> parent]

Environment_new == [stack |-> <<Frame_new(None)>>, scope |-> 1]

scope_key(e) == e.scope

get_frame(e, key) == e.stack[key]

\* HashMap::get
variables_get(frame, name) ==
    IF name \in DOMAIN frame.variables THEN Some(frame.variables[name]) ELSE None

\* declare: insert or overwrite name in the current frame only
insert_variable(e, name, value) ==
    LET f == e.stack[e.scope].variables
        g == [n \in (DOMAIN f) \cup {name} |-> IF n = name THEN value ELSE f[n]]
    IN  [e EXCEPT !.stack[e.scope].variables = g]

\* push_frame: a new frame whose parent is the current frame becomes current
insert_frame(e, func) ==
    [stack |-> Append(e.stack, Frame_new(Some(e.scope))),
     scope |-> Len(e.stack) + 1]

\* pop_frame: discard the current frame, its parent becomes current
remove_frame(e) ==
    [stack |-> SubSeq(e.stack, 1, e.scope - 1),
     scope |-> e.stack[e.scope].parent_key.v]

\* find_anywhere: the non-failing lookup, from the current frame up the
\* parent links
RECURSIVE search_from(_, _, _)
search_from(e, key, name) ==
    LET frame == get_frame(e, key)
    IN  IF name \in DOMAIN frame.variables THEN Some(frame.variables[name])
        ELSE IF frame.parent_key.some THEN search_from(e, frame.parent_key.v, name)
        ELSE None

search_frame(e, name) == search_from(e, scope_key(e), name)

(***************************************************************************)
(* lookup: walk from the current frame through the parent links.  On the   *)
(* root frame parent_key is None and unwrap() panics.                      *)
(***************************************************************************)
RECURSIVE lookup_loop(_, _, _, _)
lookup_loop(name, e, curr_scope, w) ==
    LET frame == get_frame(e, curr_scope)
        found == variables_get(frame, name)
    IN  IF found.some THEN Ok(found.v, w)
        ELSE IF frame.parent_key.some
             THEN lookup_loop(name, e, frame.parent_key.v, w)
             ELSE Panic("called Option::unwrap() on a None value", w)

lookup(name, e, w) == lookup_loop(name, e, scope_key(e), w)

is_constant(exp) == exp.kind \in {"CTrue", "CFalse", "CInt", "CReal", "CString"}

(***************************************************************************)
(* The file system and standard output, as eval and execute use them.      *)
(***************************************************************************)
\* paths std::fs::write cannot create (the empty path)
Unwritable == {""}

IoError == "No such file or directory (os error 2)"

\* the line println!("{}", v) writes for a printable constant
Rendered(exp) ==
    CASE exp.kind = "CInt" -> [text |-> ToString(exp.v)]
      [] exp.kind = "CReal" -> [real |-> exp.r]
      [] exp.kind = "CString" -> [text |-> exp.s]
      [] exp.kind = "CTrue" -> [text |-> "true"]
      [] exp.kind = "CFalse" -> [text |-> "false"]

(***************************************************************************)
(* The closures the operators pass to eval_binary_*_op.                    *)
(***************************************************************************)
ArithOp(op, a, b) ==
    CASE op = "+" -> F64Add(a, b)
      [] op = "-" -> F64Sub(a, b)
      [] op = "*" -> F64Mul(a, b)
      [] op = "/" -> F64Div(a, b)

Bool(b) == IF b THEN CTrue ELSE CFalse

BoolOp(op, a, b) ==
    CASE op = "and" -> Bool(a /\ b)
      [] op = "or" -> Bool(a \/ b)

RelOp(op, a, b) ==
    CASE op = "==" -> Bool(F64Eq(a, b))
      [] op = ">" -> Bool(F64Lt(b, a))
      [] op = "<" -> Bool(F64Lt(a, b))
      [] op = ">=" -> Bool(F64Lt(b, a) \/ F64Eq(a, b))
      [] op = "<=" -> Bool(F64Lt(a, b) \/ F64Eq(a, b))

IsInt(v) == v.tag = "Exp" /\ v.exp.kind = "CInt"
IsReal(v) == v.tag = "Exp" /\ v.exp.kind = "CReal"
IsBool(v) == v.tag = "Exp" /\ v.exp.kind \in {"CTrue", "CFalse"}
IsStr(v) == v.tag = "Exp" /\ v.exp.kind = "CString"
\* the f64 a numeric operand is computed with
NumOf(v) == IF IsInt(v) THEN as_f64(v.exp.v) ELSE v.exp.r

Unreachable == "internal error: entered unreachable code"
UnwrapNone == "called Option::unwrap() on a None value"

RECURSIVE eval(_, _, _), execute(_, _, _), call(_, _, _, _)
RECURSIVE bind_params(_, _, _, _, _), while_loop(_, _, _, _, _, _)

(***************************************************************************)
(* Arithmetic, boolean and relational operators.  `let v = eval(..)?` is   *)
(* a local operator applied to the result of the call: a result that is    *)
(* not Ok is returned as it is, an Ok one goes on to the rest.             *)
(***************************************************************************)
\* eval_binary_arith_op without the cast back to i32: two integers give
\* the f64 result as a real
eval_binary_arith_op_no_cast(lhs, rhs, e, w, op, error_msg) ==
    LET with_v1(r1) ==
            IF r1.tag # "Ok" THEN r1
            ELSE LET with_v2(r2) ==
                         IF r2.tag # "Ok" THEN r2
                         ELSE IF (IsInt(r1.val) \/ IsReal(r1.val)) /\ (IsInt(r2.val) \/ IsReal(r2.val))
                              THEN Ok(Exp(CReal(ArithOp(op, NumOf(r1.val), NumOf(r2.val)))), r2.w)
                              ELSE Err(error_msg, r2.w)
                 IN  with_v2(eval(rhs, e, r1.w))
    IN  with_v1(eval(lhs, e, w))

\* eval_binary_arith_op with checked integer arithmetic: two integers whose
\* f64 result is infinite, NaN or beyond the i32 range give an error
eval_binary_arith_op_checked(lhs, rhs, e, w, op, error_msg) ==
    LET with_v1(r1) ==
            IF r1.tag # "Ok" THEN r1
            ELSE LET with_v2(r2) ==
                         IF r2.tag # "Ok" THEN r2
                         ELSE LET v1 == r1.val
                                  v2 == r2.val
                                  checked(x) ==
                                      IF x.cls # "fin" THEN Err("attempt to compute with overflow", r2.w)
                                      ELSE Ok(Exp(CInt(as_i32(x))), r2.w)
                              IN  CASE IsInt(v1) /\ IsInt(v2) ->
                                         checked(ArithOp(op, as_f64(v1.exp.v), as_f64(v2.exp.v)))
                                    [] IsInt(v1) /\ IsReal(v2) ->
                                         Ok(Exp(CReal(ArithOp(op, as_f64(v1.exp.v), v2.exp.r))), r2.w)
                                    [] IsReal(v1) /\ IsInt(v2) ->
                                         Ok(Exp(CReal(ArithOp(op, v1.exp.r, as_f64(v2.exp.v)))), r2.w)
                                    [] IsReal(v1) /\ IsReal(v2) ->
                                         Ok(Exp(CReal(ArithOp(op, v1.exp.r, v2.exp.r))), r2.w)
                                    [] OTHER -> Err(error_msg, r2.w)
                 IN  with_v2(eval(rhs, e, r1.w))
    IN  with_v1(eval(lhs, e, w))

eval_binary_arith_op(lhs, rhs, e, w, op, error_msg) ==
    LET with_v1(r1) ==
            IF r1.tag # "Ok" THEN r1
            ELSE LET with_v2(r2) ==
                         IF r2.tag # "Ok" THEN r2
                         ELSE LET v1 == r1.val
                                  v2 == r2.val
                              IN  CASE IsInt(v1) /\ IsInt(v2) ->
                                         Ok(Exp(CInt(as_i32(ArithOp(op, as_f64(v1.exp.v), as_f64(v2.exp.v))))), r2.w)
                                    [] IsInt(v1) /\ IsReal(v2) ->
                                         Ok(Exp(CReal(ArithOp(op, as_f64(v1.exp.v), v2.exp.r))), r2.w)
                                    [] IsReal(v1) /\ IsInt(v2) ->
                                         Ok(Exp(CReal(ArithOp(op, v1.exp.r, as_f64(v2.exp.v)))), r2.w)
                                    [] IsReal(v1) /\ IsReal(v2) ->
                                         Ok(Exp(CReal(ArithOp(op, v1.exp.r, v2.exp.r))), r2.w)
                                    [] OTHER -> Err(error_msg, r2.w)
                 IN  with_v2(eval(rhs, e, r1.w))
    IN  with_v1(eval(lhs, e, w))

add(lhs, rhs, e, w) ==
    eval_binary_arith_op(lhs, rhs, e, w, "+",
        "addition '(+)' is only defined for numbers (integers and real).")

sub(lhs, rhs, e, w) ==
    eval_binary_arith_op(lhs, rhs, e, w, "-",
        "subtraction '(-)' is only defined for numbers (integers and real).")

mul(lhs, rhs, e, w) ==
    eval_binary_arith_op(lhs, rhs, e, w, "*",
        "multiplication '(*)' is only defined for numbers (integers and real).")

div(lhs, rhs, e, w) ==
    eval_binary_arith_op(lhs, rhs, e, w, "/",
        "division '(/)' is only defined for numbers (integers and real).")

\* eval_binary_boolean_op that short-circuits: the right operand is not
\* evaluated when the left one decides the result
eval_binary_boolean_op_short_circuit(lhs, rhs, e, w, op, error_msg) ==
    LET with_v1(r1) ==
            IF r1.tag # "Ok" THEN r1
            ELSE IF op = "and" /\ r1.val = Exp(CFalse) THEN Ok(Exp(CFalse), r1.w)
            ELSE IF op = "or" /\ r1.val = Exp(CTrue) THEN Ok(Exp(CTrue), r1.w)
            ELSE LET with_v2(r2) ==
                         IF r2.tag # "Ok" THEN r2
                         ELSE IF IsBool(r1.val) /\ IsBool(r2.val)
                              THEN Ok(Exp(BoolOp(op, r1.val.exp = CTrue, r2.val.exp = CTrue)), r2.w)
                              ELSE Err(error_msg, r2.w)
                 IN  with_v2(eval(rhs, e, r1.w))
    IN  with_v1(eval(lhs, e, w))

eval_binary_boolean_op(lhs, rhs, e, w, op, error_msg) ==
    LET with_v1(r1) ==
            IF r1.tag # "Ok" THEN r1
            ELSE LET with_v2(r2) ==
                         IF r2.tag # "Ok" THEN r2
                         ELSE IF IsBool(r1.val) /\ IsBool(r2.val)
                              THEN Ok(Exp(BoolOp(op, r1.val.exp = CTrue, r2.val.exp = CTrue)), r2.w)
                              ELSE Err(error_msg, r2.w)
                 IN  with_v2(eval(rhs, e, r1.w))
    IN  with_v1(eval(lhs, e, w))

and(lhs, rhs, e, w) ==
    eval_binary_boolean_op(lhs, rhs, e, w, "and", "'and' is only defined for booleans.")

or(lhs, rhs, e, w) ==
    eval_binary_boolean_op(lhs, rhs, e, w, "or", "'or' is only defined for booleans.")

not(lhs, e, w) ==
    LET with_v(r) ==
            IF r.tag # "Ok" THEN r
            ELSE CASE r.val = Exp(CTrue) -> Ok(Exp(CFalse), r.w)
                   [] r.val = Exp(CFalse) -> Ok(Exp(CTrue), r.w)
                   [] OTHER -> Err("'not' is only defined for booleans.", r.w)
    IN  with_v(eval(lhs, e, w))

\* eval_binary_rel_op that compares two values of the same non-numeric kind
\* with == instead of failing
eval_binary_rel_op_any_kind(lhs, rhs, e, w, op, error_msg) ==
    LET with_v1(r1) ==
            IF r1.tag # "Ok" THEN r1
            ELSE LET with_v2(r2) ==
                         IF r2.tag # "Ok" THEN r2
                         ELSE IF (IsInt(r1.val) \/ IsReal(r1.val)) /\ (IsInt(r2.val) \/ IsReal(r2.val))
                              THEN Ok(Exp(RelOp(op, NumOf(r1.val), NumOf(r2.val))), r2.w)
                              ELSE IF op = "==" /\ r1.val = r2.val
                                   THEN Ok(Exp(CTrue), r2.w)
                                   ELSE Err(error_msg, r2.w)
                 IN  with_v2(eval(rhs, e, r1.w))
    IN  with_v1(eval(lhs, e, w))

\* eval_binary_rel_op that evaluates the right operand first
eval_binary_rel_op_right_first(lhs, rhs, e, w, op, error_msg) ==
    LET with_v2(r2) ==
            IF r2.tag # "Ok" THEN r2
            ELSE LET with_v1(r1) ==
                         IF r1.tag # "Ok" THEN r1
                         ELSE IF (IsInt(r1.val) \/ IsReal(r1.val)) /\ (IsInt(r2.val) \/ IsReal(r2.val))
                              THEN Ok(Exp(RelOp(op, NumOf(r1.val), NumOf(r2.val))), r1.w)
                              ELSE Err(error_msg, r1.w)
                 IN  with_v1(eval(lhs, e, r2.w))
    IN  with_v2(eval(rhs, e, w))

eval_binary_rel_op(lhs, rhs, e, w, op, error_msg) ==
    LET with_v1(r1) ==
            IF r1.tag # "Ok" THEN r1
            ELSE LET with_v2(r2) ==
                         IF r2.tag # "Ok" THEN r2
                         ELSE IF (IsInt(r1.val) \/ IsReal(r1.val)) /\ (IsInt(r2.val) \/ IsReal(r2.val))
                              THEN Ok(Exp(RelOp(op, NumOf(r1.val), NumOf(r2.val))), r2.w)
                              ELSE Err(error_msg, r2.w)
                 IN  with_v2(eval(rhs, e, r1.w))
    IN  with_v1(eval(lhs, e, w))

eq(lhs, rhs, e, w) ==
    eval_binary_rel_op(lhs, rhs, e, w, "==", "(==) is only defined for numbers (integers and real).")

gt(lhs, rhs, e, w) ==
    eval_binary_rel_op(lhs, rhs, e, w, ">", "(>) is only defined for numbers (integers and real).")

lt(lhs, rhs, e, w) ==
    eval_binary_rel_op(lhs, rhs, e, w, "<", "(<) is only defined for numbers (integers and real).")

gte(lhs, rhs, e, w) ==
    eval_binary_rel_op(lhs, rhs, e, w, ">=", "(>=) is only defined for numbers (integers and real).")

lte(lhs, rhs, e, w) ==
    eval_binary_rel_op(lhs, rhs, e, w, "<=", "(<=) is only defined for numbers (integers and real).")

\* the ReadFile arm of eval
eval_read_file(file_path_exp, e, w) ==
    LET with_file_path(r) ==
            IF r.tag # "Ok" THEN r
            ELSE IF IsStr(r.val)
                 THEN IF r.val.exp.s \in DOMAIN r.w.fs
                      THEN Ok(Exp(CString(r.w.fs[r.val.exp.s])), r.w)
                      ELSE Err(IoError, r.w)
                 ELSE Err("read_file expects a string as the file path", r.w)
    IN  with_file_path(eval(file_path_exp, e, w))

eval(exp, e, w0) ==
    LET w == Log(w0, "eval", exp)
    IN  CASE exp.kind = "Add" -> add(exp.lhs, exp.rhs, e, w)
          [] exp.kind = "Sub" -> sub(exp.lhs, exp.rhs, e, w)
          [] exp.kind = "Mul" -> mul(exp.lhs, exp.rhs, e, w)
          [] exp.kind = "Div" -> div(exp.lhs, exp.rhs, e, w)
          [] exp.kind = "And" -> and(exp.lhs, exp.rhs, e, w)
          [] exp.kind = "Or" -> or(exp.lhs, exp.rhs, e, w)
          [] exp.kind = "Not" -> not(exp.lhs, e, w)
          [] exp.kind = "EQ" -> eq(exp.lhs, exp.rhs, e, w)
          [] exp.kind = "GT" -> gt(exp.lhs, exp.rhs, e, w)
          [] exp.kind = "LT" -> lt(exp.lhs, exp.rhs, e, w)
          [] exp.kind = "GTE" -> gte(exp.lhs, exp.rhs, e, w)
          [] exp.kind = "LTE" -> lte(exp.lhs, exp.rhs, e, w)
          [] exp.kind = "Var" -> lookup(exp.name, e, w)
          [] exp.kind = "FuncCall" -> call(exp.name, exp.args, e, w)
          [] exp.kind = "ReadFile" -> eval_read_file(exp.path, e, w)
          [] is_constant(exp) -> Ok(Exp(exp), w)
          [] OTHER -> Err("Not implemented yet.", w)

(***************************************************************************)
(* call: the function-call protocol.                                       *)
(***************************************************************************)
MinOf(a, b) == IF a < b THEN a ELSE b

\* for (arg, (param, _)) in args.iter().zip(params): each argument is
\* evaluated against new_env, the environment with the callee's frame
\* pushed and the earlier parameters bound
bind_params(args, params, i, new_env, w) ==
    IF i > MinOf(Len(args), Len(params)) THEN Ok(new_env, w)
    ELSE LET with_arg_value(r) ==
                 IF r.tag # "Ok" THEN r
                 ELSE bind_params(args, params, i + 1,
                                  insert_variable(new_env, params[i], r.val), r.w)
         IN  with_arg_value(eval(args[i], new_env, w))

\* call_func whose frame has the root frame, where the function was
\* defined, as its parent instead of the caller's current frame
call_func_root_parent(func, args, e, w) ==
    LET inserted == insert_frame(e, func)
        pushed == [inserted EXCEPT
                      !.stack[inserted.scope].parent_key = Some(scope_key(Environment_new))]
        with_control_flow(r) ==
            IF r.tag # "Ok" THEN r
            ELSE IF r.val.kind = "Return"
                 THEN Ok(r.val.val, r.w)
                 ELSE Panic(Unreachable, r.w)
        with_params(b) ==
            IF b.tag # "Ok" THEN b
            ELSE LET new_env == IF search_frame(b.val, func.name).some
                                THEN b.val
                                ELSE insert_variable(b.val, func.name, Func(func))
                 IN  IF ~func.body.some THEN Panic(UnwrapNone, b.w)
                     ELSE with_control_flow(execute(func.body.v, new_env, b.w))
    IN  IF Len(pushed.stack) > MaxDepth THEN Diverge(w)
        ELSE with_params(IF func.params.some
                         THEN bind_params(args, func.params.v, 1, pushed, w)
                         ELSE Ok(pushed, w))

\* call_func that executes the body without binding the parameters
call_func_unbound(func, args, e, w) ==
    LET pushed == insert_frame(e, func)
        with_control_flow(r) ==
            IF r.tag # "Ok" THEN r
            ELSE IF r.val.kind = "Return"
                 THEN Ok(r.val.val, r.w)
                 ELSE Panic(Unreachable, r.w)
        new_env == IF search_frame(pushed, func.name).some
                   THEN pushed
                   ELSE insert_variable(pushed, func.name, Func(func))
    IN  IF Len(pushed.stack) > MaxDepth THEN Diverge(w)
        ELSE IF ~func.body.some THEN Panic(UnwrapNone, w)
             ELSE with_control_flow(execute(func.body.v, new_env, w))

\* the body of `if let Ok(EnvValue::Func(func)) = lookup(..)`
call_func(func, args, e, w) ==
    LET pushed == insert_frame(e, func)
        with_control_flow(r) ==
            IF r.tag # "Ok" THEN r
            ELSE IF r.val.kind = "Return"
                 THEN Ok(r.val.val, r.w)
                 ELSE Panic(Unreachable, r.w)
        with_params(b) ==
            IF b.tag # "Ok" THEN b
            ELSE LET new_env == IF search_frame(b.val, func.name).some
                                THEN b.val
                                ELSE insert_variable(b.val, func.name, Func(func))
                 IN  IF ~func.body.some THEN Panic(UnwrapNone, b.w)
                     ELSE with_control_flow(execute(func.body.v, new_env, b.w))
    IN  IF Len(pushed.stack) > MaxDepth THEN Diverge(w)
        ELSE with_params(IF func.params.some
                         THEN bind_params(args, func.params.v, 1, pushed, w)
                         ELSE Ok(pushed, w))

call(name, args, e, w) ==
    LET found == lookup(name, e, w)
    IN  IF found.tag = "Panic" THEN found
        ELSE IF found.tag = "Ok" /\ found.val.tag = "Func"
             THEN call_func(found.val.func, args, e, w)
             ELSE Panic(Unreachable, w)

(***************************************************************************)
(* execute, one operator per arm of its match.                             *)
(***************************************************************************)
\* exec_assignment that leaves a name the environment already resolves as
\* it is
exec_assignment_keep_first(stmt, new_env, w) ==
    LET with_value(r) ==
            IF r.tag # "Ok" THEN r
            ELSE IF search_frame(new_env, stmt.name).some THEN Ok(Continue(new_env), r.w)
                 ELSE Ok(Continue(insert_variable(new_env, stmt.name, r.val)), r.w)
    IN  with_value(eval(stmt.exp, new_env, w))

\* exec_assignment that stores the expression as written once it is known
\* to evaluate
exec_assignment_unevaluated(stmt, new_env, w) ==
    LET with_value(r) ==
            IF r.tag # "Ok" THEN r
            ELSE Ok(Continue(insert_variable(new_env, stmt.name, Exp(stmt.exp))), r.w)
    IN  with_value(eval(stmt.exp, new_env, w))

\* exec_assignment that goes on in a frame pushed on the caller's, as after
\* a call that did not leave the caller's environment as it was
exec_assignment_in_callee_frame(stmt, new_env, w) ==
    LET with_value(r) ==
            IF r.tag # "Ok" THEN r
            ELSE IF stmt.exp.kind = "FuncCall"
                 THEN Ok(Continue(insert_variable(insert_frame(new_env, stmt.exp.name),
                                                  stmt.name, r.val)), r.w)
                 ELSE Ok(Continue(insert_variable(new_env, stmt.name, r.val)), r.w)
    IN  with_value(eval(stmt.exp, new_env, w))

exec_assignment(stmt, new_env, w) ==
    LET with_value(r) ==
            IF r.tag # "Ok" THEN r
            ELSE Ok(Continue(insert_variable(new_env, stmt.name, r.val)), r.w)
    IN  with_value(eval(stmt.exp, new_env, w))

\* exec_if_then_else that takes a false condition for the end of the
\* statement, with or without an else-branch
exec_if_then_else_no_else(stmt, new_env, w) ==
    LET with_value(r) ==
            IF r.tag # "Ok" THEN r
            ELSE IF r.val = Exp(CTrue) THEN execute(stmt.then, new_env, r.w)
                 ELSE Ok(Continue(new_env), r.w)
    IN  with_value(eval(stmt.cond, new_env, w))

exec_if_then_else(stmt, new_env, w) ==
    LET with_value(r) ==
            IF r.tag # "Ok" THEN r
            ELSE IF r.val = Exp(CTrue) THEN execute(stmt.then, new_env, r.w)
                 ELSE IF stmt.else.some THEN execute(stmt.else.v, new_env, r.w)
                      ELSE Ok(Continue(new_env), r.w)
    IN  with_value(eval(stmt.cond, new_env, w))

\* while_loop with the condition re-evaluated against the environment the
\* iteration started from instead of the one it returned
while_loop_stale(cond, body, new_env, value, w, n) ==
    LET with_control_flow(r) ==
            IF r.tag # "Ok" THEN r
            ELSE IF r.val.kind = "Continue"
                 THEN LET with_value(c) ==
                              IF c.tag # "Ok" THEN c
                              ELSE while_loop(cond, body, r.val.env, c.val, c.w, n + 1)
                      IN  with_value(eval(cond, new_env, r.w))
                 ELSE Ok(ReturnFlow(r.val.val), r.w)
    IN  CASE value = Exp(CTrue) ->
               IF n >= MaxLoop THEN Diverge(w)
               ELSE with_control_flow(execute(body, new_env, w))
          [] value = Exp(CFalse) -> Ok(Continue(new_env), w)
          [] OTHER -> Panic(Unreachable, w)

\* the `loop` of the While arm; n counts the iterations already made
while_loop(cond, body, new_env, value, w, n) ==
    LET with_control_flow(r) ==
            IF r.tag # "Ok" THEN r
            ELSE IF r.val.kind = "Continue"
                 THEN LET with_value(c) ==
                              IF c.tag # "Ok" THEN c
                              ELSE while_loop(cond, body, r.val.env, c.val, c.w, n + 1)
                      IN  with_value(eval(cond, r.val.env, r.w))
                 ELSE Ok(ReturnFlow(r.val.val), r.w)
    IN  CASE value = Exp(CTrue) ->
               IF n >= MaxLoop THEN Diverge(w)
               ELSE with_control_flow(execute(body, new_env, w))
          [] value = Exp(CFalse) -> Ok(Continue(new_env), w)
          [] OTHER -> Panic(Unreachable, w)

\* the state of the While arm between two passes of its `loop`: the
\* environment new_env and the value of the condition
Looping(new_env, value) == [kind |-> "Looping", env |-> new_env, value |-> value]

\* loop_iteration with the condition re-evaluated against the environment
\* the pass started from instead of the one the body returned
loop_iteration_stale(cond, body, new_env, value, w) ==
    LET with_control_flow(r) ==
            IF r.tag # "Ok" THEN r
            ELSE IF r.val.kind = "Continue"
                 THEN LET with_value(c) ==
                              IF c.tag # "Ok" THEN c
                              ELSE Ok(Looping(r.val.env, c.val), c.w)
                      IN  with_value(eval(cond, new_env, r.w))
                 ELSE Ok(ReturnFlow(r.val.val), r.w)
    IN  CASE value = Exp(CTrue) -> with_control_flow(execute(body, new_env, w))
          [] value = Exp(CFalse) -> Ok(Continue(new_env), w)
          [] OTHER -> Panic(Unreachable, w)

\* one pass of the `loop` of the While arm: it ends the statement (Continue,
\* Return, an error, a panic) or leaves new_env and value for the next pass
loop_iteration(cond, body, new_env, value, w) ==
    LET with_control_flow(r) ==
            IF r.tag # "Ok" THEN r
            ELSE IF r.val.kind = "Continue"
                 THEN LET with_value(c) ==
                              IF c.tag # "Ok" THEN c
                              ELSE Ok(Looping(r.val.env, c.val), c.w)
                      IN  with_value(eval(cond, r.val.env, r.w))
                 ELSE Ok(ReturnFlow(r.val.val), r.w)
    IN  CASE value = Exp(CTrue) -> with_control_flow(execute(body, new_env, w))
          [] value = Exp(CFalse) -> Ok(Continue(new_env), w)
          [] OTHER -> Panic(Unreachable, w)

exec_while(stmt, new_env, w) ==
    LET with_value(c) ==
            IF c.tag # "Ok" THEN c
            ELSE while_loop(stmt.cond, stmt.body, new_env, c.val, c.w, 0)
    IN  with_value(eval(stmt.cond, new_env, w))

\* exec_sequence without the short-circuit: s2 runs after s1 returned
exec_sequence_no_short_circuit(stmt, new_env, w) ==
    LET with_control_flow(r) ==
            IF r.tag # "Ok" THEN r
            ELSE IF r.val.kind = "Continue" THEN execute(stmt.s2, r.val.env, r.w)
                 ELSE LET after_s2(r2) ==
                              IF r2.tag # "Ok" THEN r2 ELSE Ok(ReturnFlow(r.val.val), r2.w)
                      IN  after_s2(execute(stmt.s2, new_env, r.w))
    IN  with_control_flow(execute(stmt.s1, new_env, w))

exec_sequence(stmt, new_env, w) ==
    LET with_control_flow(r) ==
            IF r.tag # "Ok" THEN r
            ELSE IF r.val.kind = "Continue" THEN execute(stmt.s2, r.val.env, r.w)
                 ELSE Ok(ReturnFlow(r.val.val), r.w)
    IN  with_control_flow(execute(stmt.s1, new_env, w))

exec_func_def(stmt, new_env, w) ==
    Ok(Continue(insert_variable(new_env, stmt.func.name, Func(stmt.func))), w)

exec_return(stmt, new_env, w) ==
    LET with_value(r) == IF r.tag # "Ok" THEN r ELSE Ok(ReturnFlow(r.val), r.w)
    IN  with_value(eval(stmt.exp, new_env, w))

exec_write_to_file(stmt, new_env, w) ==
    LET with_path_value(p) ==
            IF p.tag # "Ok" THEN p
            ELSE LET with_content_value(c) ==
                         IF c.tag # "Ok" THEN c
                         ELSE IF IsStr(p.val) /\ IsStr(c.val)
                              THEN IF p.val.exp.s \in Unwritable THEN Err(IoError, c.w)
                                   ELSE LET path == p.val.exp.s
                                            files == [f \in (DOMAIN c.w.fs) \cup {path} |->
                                                         IF f = path THEN c.val.exp.s ELSE c.w.fs[f]]
                                        IN  Ok(Continue(new_env), [c.w EXCEPT !.fs = files])
                              ELSE Err("write_to_file expects two string arguments", c.w)
                 IN  with_content_value(eval(stmt.content, new_env, p.w))
    IN  with_path_value(eval(stmt.path, new_env, w))

exec_print(stmt, new_env, w) ==
    LET with_value(r) ==
            IF r.tag # "Ok" THEN r
            ELSE IF r.val.tag = "Exp" /\ is_constant(r.val.exp)
                 THEN Ok(Continue(new_env), [r.w EXCEPT !.out = Append(@, Rendered(r.val.exp))])
                 ELSE Err("Cannot print this type of value", r.w)
    IN  with_value(eval(stmt.exp, new_env, w))

execute(stmt, e, w0) ==
    LET new_env == e
        w == Log(w0, "execute", stmt)
    IN  CASE stmt.kind = "Assignment" -> exec_assignment(stmt, new_env, w)
          [] stmt.kind = "IfThenElse" -> exec_if_then_else(stmt, new_env, w)
          [] stmt.kind = "While" -> exec_while(stmt, new_env, w)
          [] stmt.kind = "Sequence" -> exec_sequence(stmt, new_env, w)
          [] stmt.kind = "FuncDef" -> exec_func_def(stmt, new_env, w)
          [] stmt.kind = "Return" -> exec_return(stmt, new_env, w)
          [] stmt.kind = "WriteToFile" -> exec_write_to_file(stmt, new_env, w)
          [] stmt.kind = "Print" -> exec_print(stmt, new_env, w)
          [] OTHER -> Err("not implemented yet", w)

(***************************************************************************)
(* The programs the driver runs.  A driver (src/src/main.rs, the tests of  *)
(* interpreter.rs) builds a statement or an expression, calls execute or   *)
(* eval against its environment and, on Continue(new_env), goes on with    *)
(* new_env.                                                                *)
(***************************************************************************)
X == Var("x")
Y == Var("y")
N == Var("n")
Half(n) == CReal(Norm(n, 2))

\* def f(n): return n + 1
FunF == Function("f", Some(<<"n">>), Some(Return(Add(N, CInt(1)))))
\* def g(): y = 1            (falls through without a Return)
FunG == Function("g", None, Some(Assignment("y", CInt(1))))
\* def h(n)                  (a declaration stub: no body)
FunH == Function("h", Some(<<"n">>), None)

\* def k(n): x = n + 10; return x      (assigns a name the caller may have)
FunK == Function("k", Some(<<"n">>),
                 Some(Sequence(Assignment("x", Add(N, CInt(10))), Return(X))))

\* def free(): return x               (x is not bound by the function)
FunFree == Function("free", None, Some(Return(X)))
\* def shadow(x): return free()       (the parameter has the caller's name)
FunShadow == Function("shadow", Some(<<"x">>), Some(Return(FuncCall("free", <<>>))))
\* def swap(y, x): return y - x       (the parameters are the caller's names)
FunSwap == Function("swap", Some(<<"y", "x">>), Some(Return(Sub(Y, X))))

\* def fibonacci(n):
\*     if n < 1: return 0
\*     if n <= 2: return n - 1
\*     return fibonacci(n - 1) + fibonacci(n - 2)
Fibonacci ==
    Function("fibonacci", Some(<<"n">>),
        Some(Sequence(
            IfThenElse(LT(N, CInt(1)), Return(CInt(0)), None),
            Sequence(
                IfThenElse(LTE(N, CInt(2)), Return(Sub(N, CInt(1))), None),
                Return(Add(FuncCall("fibonacci", <<Sub(N, CInt(1))>>),
                           FuncCall("fibonacci", <<Sub(N, CInt(2))>>)))))))

\* the arguments fibonacci is called with: fibonacci(5) nests four calls,
\* which with the root frame makes MaxDepth frames
FibInputs == -1 .. 5

\* if x == y: y = 1 else: y = 2; if x < 0: y = 5
NestedIf ==
    IfThenElse(EQ(X, Y), Assignment("y", CInt(1)),
        Some(Sequence(Assignment("y", CInt(2)),
                      IfThenElse(LT(X, CInt(0)), Assignment("y", CInt(5)), None))))

\* while x > 0: y = y + x; x = x - 1
Summation ==
    While(GT(X, CInt(0)),
          Sequence(Assignment("y", Add(Y, X)), Assignment("x", Sub(X, CInt(1)))))

\* while true: x = x + 1; if x > 2: return x
LoopReturn ==
    While(CTrue,
          Sequence(Assignment("x", Add(X, CInt(1))),
                   IfThenElse(GT(X, CInt(2)), Return(X), None)))

Stmts ==
    { Sequence(Assignment("x", CInt(1)), Assignment("y", CInt(0))),
      Assignment("x", CInt(3)),
      Assignment("y", Add(X, CInt(1))),
      Sequence(Return(X), Assignment("y", CInt(7))),
      Sequence(Return(CInt(5)), WriteToFile(CString("o.txt"), CString("a"))),
      Sequence(IfThenElse(GT(X, CInt(1)), Return(X), None), PrintStmt(CString("after"))),
      Sequence(PrintStmt(X), Return(Y)),
      Summation,
      LoopReturn,
      While(GT(X, CInt(0)), Sequence(Assignment("x", CInt(0)), Assignment("y", CInt(1)))),
      While(X, Assignment("x", CFalse)),
      While(CInt(1), Assignment("y", CInt(1))),
      IfThenElse(CInt(1), Assignment("y", CInt(1)), Some(Assignment("y", CInt(2)))),
      IfThenElse(CString("s"), Assignment("y", CInt(1)), None),
      NestedIf,
      IfThenElse(GT(X, CInt(1)), Assignment("y", CInt(1)), Some(Assignment("y", CInt(0)))),
      IfThenElse(LT(X, CInt(0)), Assignment("y", CInt(5)), None),
      FuncDef(FunF),
      FuncDef(FunG),
      FuncDef(FunH),
      Assignment("x", CTrue),
      WriteToFile(CString("o.txt"), CString("a")),
      WriteToFile(CString(""), CString("a")),
      PrintStmt(Var("f")),
      Pass,
      FuncDef(FunK),
      Assignment("y", FuncCall("k", <<X>>)),
      Sequence(FuncDef(FunFree), FuncDef(FunShadow)),
      FuncDef(FunSwap),
      FuncDef(Fibonacci),
      Sequence(FuncDef(Fibonacci),
               Assignment("fib", FuncCall("fibonacci", <<CInt(5)>>))) }

Exprs ==
    { X, Var("z"),
      FuncCall("f", <<X>>),
      FuncCall("f", <<>>),
      FuncCall("f", <<CInt(1), CInt(2)>>),
      FuncCall("g", <<>>),
      FuncCall("h", <<CInt(1)>>),
      FuncCall("x", <<>>),
      Add(CInt(10), Half(41)),
      Div(CInt(10), CInt(3)),
      Div(X, Y),
      Add(CTrue, CInt(1)),
      And(CFalse, Add(CTrue, CInt(1))),
      And(CFalse, CInt(1)),
      And(CFalse, ReadFile(CString("none.txt"))),
      And(CFalse, Var("z")),
      And(CTrue, CFalse),
      And(X, CTrue),
      Or(CTrue, Add(CTrue, CInt(1))),
      Or(CTrue, CInt(1)),
      Or(CFalse, GT(X, CInt(0))),
      Or(Var("z"), CTrue),
      Not(CTrue),
      ReadFile(CString("in.txt")),
      ReadFile(CInt(1)),
      ReadInput,
      EQ(CString("a"), CString("a")),
      EQ(CTrue, CTrue),
      EQ(Var("f"), Var("f")),
      EQ(CInt(3), Half(6)),
      EQ(X, Y),
      GT(CString("b"), CString("a")),
      LT(CInt(1), CTrue),
      GTE(Half(41), X),
      LTE(X, CInt(1)),
      FuncCall("k", <<X>>),
      FuncCall("free", <<>>),
      FuncCall("shadow", <<CInt(5)>>),
      FuncCall("swap", <<X, Y>>),
      FuncCall("swap", <<CInt(5), X>>),
      Add(Add(CTrue, CInt(1)), ReadFile(CString("none.txt"))),
      Sub(CInt(1), Not(CInt(1))),
      Mul(ReadFile(CString("in.txt")), FuncCall("f", <<X>>)),
      And(ReadFile(CInt(1)), Not(CInt(1))),
      Or(Not(CInt(1)), FuncCall("f", <<X>>)),
      LT(ReadFile(CString("none.txt")), FuncCall("f", <<CInt(1)>>)),
      GTE(FuncCall("f", <<CInt(1)>>), Add(CTrue, CInt(1))) }
        \cup {FuncCall("fibonacci", <<CInt(n)>>) : n \in FibInputs}

NoOp == [op |-> "none"]

Init ==
    /\ env = Environment_new
    /\ fs = [p \in {"in.txt"} |-> "hello"]
    /\ out = <<>>
    /\ last = NoOp
    /\ trace = <<>>
    /\ pc = "ready"
    /\ steps = 0

\* what the process is after a call that ended r
After(r) ==
    CASE r.tag \in {"Ok", "Err"} -> "ready"
      [] r.tag = "Panic" -> "panicked"
      [] r.tag = "Diverge" -> "running"

\* the world a call of the driver starts in
World == [fs |-> fs, out |-> out, trace |-> <<>>]

\* Ok(ControlFlow::Continue(new_env)) => the driver goes on with new_env
NextEnv(r) == IF r.tag = "Ok" /\ r.val.kind = "Continue" THEN r.val.env ELSE env

\* the call op(node, &env) of the driver ended r: the files and the output
\* are what the call left, only execute hands an environment back, and
\* `last` keeps the call and its result
Called(op, node, r) ==
    /\ last' = [op |-> op, node |-> node, env |-> env, fs |-> fs, out |-> out, res |-> r]
    /\ env' = IF op = "execute" THEN NextEnv(r) ELSE env
    /\ fs' = r.w.fs
    /\ out' = r.w.out
    /\ trace' = r.w.trace
    /\ pc' = After(r)

\* the driver calls execute(s, &env)
Execute(s) ==
    /\ pc = "ready"
    /\ steps < MaxSteps
    /\ Called("execute", s, execute(s, env, World))
    /\ steps' = steps + 1

\* the driver calls eval(e, &env)
Eval(e) ==
    /\ pc = "ready"
    /\ steps < MaxSteps
    /\ Called("eval", e, eval(e, env, World))
    /\ steps' = steps + 1

Next ==
    \/ \E s \in Stmts : Execute(s)
    \/ \E e \in Exprs : Eval(e)

Spec == Init /\ [][Next]_vars

(***************************************************************************)
(* The arithmetic operators as functions of their operands: the driver     *)
(* holds one expression op(a, b) over literals and evaluates it in a new   *)
(* environment (the tests eval_add_expression1 .. eval_div_expression4).   *)
(***************************************************************************)
ArithKinds == {"Add", "Sub", "Mul", "Div"}

IntLits == {CInt(i) : i \in {I32Min, -7, -1, 0, 2, 3, 10, 21, I32Max}}

\* 20.5, 3.0, 0.0, -1.5
RealLits == {Half(41), Half(6), Half(0), Half(-3)}

SmallLits == {CInt(10), CInt(3), CInt(0)} \cup RealLits \cup {CTrue, CString("a")}

ArithExprs ==
    {Bin(k, a, b) : k \in ArithKinds, a \in IntLits, b \in IntLits}
        \cup {Bin(k, a, b) : k \in ArithKinds, a \in SmallLits, b \in SmallLits}

InitArith ==
    /\ env = Environment_new
    /\ fs = [p \in {"in.txt"} |-> "hello"]
    /\ out = <<>>
    /\ last \in {[op |-> "input", node |-> e] : e \in ArithExprs}
    /\ trace = <<>>
    /\ pc = "ready"
    /\ steps = 0

\* the driver calls eval on the expression it holds
EvalInput ==
    /\ pc = "ready"
    /\ last.op = "input"
    /\ Called("eval", last.node, eval(last.node, env, World))
    /\ steps' = steps + 1

NextArith == EvalInput

SpecArith == InitArith /\ [][NextArith]_vars

(***************************************************************************)
(* The summation loop, pass by pass (tests::eval_summation): the driver    *)
(* executes x = n; y = 0 and then the While statement, whose `loop` makes  *)
(* one pass per step.  `last` holds n, the value of the condition and the  *)
(* number of passes that executed the body.                                *)
(***************************************************************************)
SumInputs == {0, 1, 2, 3, 10, 65535, 65536}

\* x = n; y = 0
SumSetup(n) == Sequence(Assignment("x", CInt(n)), Assignment("y", CInt(0)))

InitSum ==
    /\ env = Environment_new
    /\ fs = [p \in {"in.txt"} |-> "hello"]
    /\ out = <<>>
    /\ last \in {[op |-> "input", n |-> n] : n \in SumInputs}
    /\ trace = <<>>
    /\ pc = "ready"
    /\ steps = 0

\* the While arm holds new_env and value c.val, after `iters` passes
LoopState(n, iters, new_env, c) ==
    /\ env' = new_env
    /\ last' = [op |-> "while", n |-> n, iters |-> iters, value |-> c.val]
    /\ trace' = c.w.trace
    /\ pc' = "loop"
    /\ UNCHANGED <<fs, out, steps>>

\* let mut value = eval(cond, &new_env)?
StartLoop(n, r) ==
    LoopState(n, 0, r.val.env, eval(Summation.cond, r.val.env, World))

\* the driver executes x = n; y = 0 and enters the While statement
EnterLoop ==
    /\ pc = "ready"
    /\ last.op = "input"
    /\ StartLoop(last.n, execute(SumSetup(last.n), env, World))

\* what a pass that ended r leaves
AfterIteration(r) ==
    IF r.tag = "Ok" /\ r.val.kind = "Looping"
    THEN LoopState(last.n, last.iters + 1, r.val.env, [val |-> r.val.value, w |-> r.w])
    ELSE /\ last' = [op |-> "done", n |-> last.n, iters |-> last.iters, res |-> r]
         /\ env' = NextEnv(r)
         /\ trace' = r.w.trace
         /\ pc' = IF r.tag \in {"Ok", "Err"} THEN "done" ELSE After(r)
         /\ UNCHANGED <<fs, out, steps>>

\* one pass of the loop
Iterate ==
    /\ pc = "loop"
    /\ AfterIteration(loop_iteration(Summation.cond, Summation.body, env, last.value, World))

NextSum == EnterLoop \/ Iterate

SpecSum == InitSum /\ [][NextSum]_vars

(***************************************************************************)
(* Properties.  `last` records the call the driver made last: the node, the *)
(* environment and world it was called with, and its result.               *)
(***************************************************************************)
IsExec(k) == last.op = "execute" /\ last.node.kind = k
IsEval(k) == last.op = "eval" /\ last.node.kind = k

\* the world the last call started in, and the same after its entry event
Before == [fs |-> last.fs, out |-> last.out, trace |-> <<>>]
Entered == Log(Before, last.op, last.node)

Returned(r) == r.tag = "Ok" /\ r.val.kind = "Return"
Continued(r) == r.tag = "Ok" /\ r.val.kind = "Continue"

\* C1: executing Sequence(s1, s2): when s1 yields Return(v) the result is
\* Return(v) and nothing of s2 happens (the files, the output and the calls
\* made are those of s1 alone); when s1 yields Continue(env1) the result is
\* the result of executing s2 against env1.
C1_SequenceShortCircuit ==
    IsExec("Sequence") =>
        LET r1 == execute(last.node.s1, last.env, Entered)
        IN  /\ Returned(r1) => last.res = r1
            /\ Continued(r1) => last.res = execute(last.node.s2, r1.val.env, r1.w)

\* a Sequence whose s1 returned and whose s2 would have written a file
C1_Witness ==
    /\ IsExec("Sequence")
    /\ Returned(last.res)
    /\ last.node.s2.kind = "WriteToFile"
    /\ "o.txt" \notin DOMAIN fs

\* the loop as C2 describes it: the condition is evaluated against the
\* environment the preceding iteration returned; false ends the loop with
\* that environment, a Return of the body ends it at once.  Runs that fail,
\* meet a non-boolean condition or exceed MaxLoop are outside C2.
OutOfScope == [tag |-> "OutOfScope"]

RECURSIVE WhileAsClaimed(_, _, _, _, _)
WhileAsClaimed(cond, body, e, w, n) ==
    LET c == eval(cond, e, w)
    IN  IF c.tag # "Ok" \/ ~IsBool(c.val) THEN OutOfScope
        ELSE IF c.val = Exp(CFalse) THEN Ok(Continue(e), c.w)
        ELSE IF n >= MaxLoop THEN OutOfScope
        ELSE LET b == execute(body, e, c.w)
             IN  IF b.tag # "Ok" THEN OutOfScope
                 ELSE IF b.val.kind = "Return" THEN Ok(ReturnFlow(b.val.val), b.w)
                 ELSE WhileAsClaimed(cond, body, b.val.env, b.w, n + 1)

\* C2: a While ends with Return(v) as soon as an iteration of the body
\* yields Return(v), without evaluating the condition again; it ends with
\* Continue carrying the environment of the last completed iteration when
\* the condition evaluates to false; every re-evaluation of the condition
\* is made against the environment the preceding iteration returned.
C2_WhileLoop ==
    IsExec("While") =>
        LET claimed == WhileAsClaimed(last.node.cond, last.node.body, last.env, Entered, 0)
        IN  claimed # OutOfScope => last.res = claimed

\* the loop that returns from its second iteration
C2_Witness ==
    /\ IsExec("While")
    /\ last.node = LoopReturn
    /\ Returned(last.res)
    /\ last.res.val.val = Exp(CInt(3))

\* what the name of the last FuncCall resolves to in the caller's environment
Callee == search_frame(last.env, last.node.name)
CalleeIsFunc == Callee.some /\ Callee.v.tag = "Func"
NParams(f) == IF f.params.some THEN Len(f.params.v) ELSE 0
\* whether the last call executed a statement (a function body)
BodyExecuted == \E i \in 1..Len(trace) : trace[i].op = "execute"

\* C3: resolving a name that no frame from the current one up to the root
\* defines makes eval return an error value (UndefinedNameError); it does
\* not crash.
C3_UndefinedNameIsErr ==
    (IsEval("Var") /\ ~search_frame(last.env, last.node.name).some)
        => last.res.tag = "Err"

\* C4: a call whose number of arguments differs from the number of declared
\* parameters fails with an error value (ArityMismatch), and the body is
\* not executed.
C4_ArityMismatchIsErr ==
    (IsEval("FuncCall") /\ CalleeIsFunc /\ Len(last.node.args) # NParams(Callee.v.func))
        => (last.res.tag = "Err" /\ ~BodyExecuted)

RECURSIVE HasReturn(_)
HasReturn(stmt) ==
    CASE stmt.kind = "Return" -> TRUE
      [] stmt.kind = "Sequence" -> HasReturn(stmt.s1) \/ HasReturn(stmt.s2)
      [] stmt.kind = "While" -> HasReturn(stmt.body)
      [] stmt.kind = "IfThenElse" ->
            HasReturn(stmt.then) \/ (stmt.else.some /\ HasReturn(stmt.else.v))
      [] OTHER -> FALSE

\* C5: a call whose body falls through without a Return fails with an
\* error value (MissingReturnError).
C5_MissingReturnIsErr ==
    (/\ IsEval("FuncCall")
     /\ CalleeIsFunc
     /\ Len(last.node.args) = NParams(Callee.v.func)
     /\ Callee.v.func.body.some
     /\ ~HasReturn(Callee.v.func.body.v))
        => last.res.tag = "Err"

\* C6: a call of a name that resolves to a constant fails with an error
\* value (NotAFunctionError); no argument is evaluated and no body executed.
C6_NotAFunctionIsErr ==
    (IsEval("FuncCall") /\ Callee.some /\ Callee.v.tag = "Exp")
        => (last.res.tag = "Err" /\ last.res.w = Entered)

\* C7: when the condition of an IfThenElse or a While evaluates to a value
\* that is not a boolean, execute returns an error value (TypeError) and
\* neither a branch nor the body is executed.
C7_NonBooleanConditionIsErr ==
    (IsExec("IfThenElse") \/ IsExec("While")) =>
        LET c == eval(last.node.cond, last.env, Entered)
        IN  (c.tag = "Ok" /\ ~IsBool(c.val)) => (last.res.tag = "Err" /\ last.res.w = c.w)

\* C7 for the conditional alone
C7_IfNonBooleanIsErr ==
    IsExec("IfThenElse") => C7_NonBooleanConditionIsErr

\* C7 for the loop alone
C7_WhileNonBooleanIsErr ==
    IsExec("While") => C7_NonBooleanConditionIsErr

IsBound(e, name, i) == search_frame(e, name) = Some(Exp(CInt(i)))

\* C8: IfThenElse(c, t, e): when c evaluates to true the result is that of
\* executing t; when c evaluates to false, that of executing e if there is
\* an else-branch and Continue with the environment unchanged if not; the
\* branch not taken leaves no effect.  With x = 1 and y = 0 the nested
\* conditional NestedIf ends with y = 2.
C8_IfThenElse ==
    IsExec("IfThenElse") =>
        LET c == eval(last.node.cond, last.env, Entered)
        IN  /\ (c.tag = "Ok" /\ c.val = Exp(CTrue))
                => last.res = execute(last.node.then, last.env, c.w)
            /\ (c.tag = "Ok" /\ c.val = Exp(CFalse) /\ last.node.else.some)
                => last.res = execute(last.node.else.v, last.env, c.w)
            /\ (c.tag = "Ok" /\ c.val = Exp(CFalse) /\ ~last.node.else.some)
                => last.res = Ok(Continue(last.env), c.w)
            /\ (last.node = NestedIf /\ IsBound(last.env, "x", 1) /\ IsBound(last.env, "y", 0))
                => (Continued(last.res) /\ IsBound(last.res.val.env, "y", 2))

\* the nested conditional, run with x = 1 and y = 0
C8_Witness ==
    /\ IsExec("IfThenElse")
    /\ last.node = NestedIf
    /\ IsBound(last.env, "x", 1)
    /\ IsBound(last.env, "y", 0)
    /\ IsBound(env, "y", 2)

BoolMsg(k) == IF k = "And" THEN "'and' is only defined for booleans."
              ELSE "'or' is only defined for booleans."

\* C10: And and Or do not short-circuit: once the left operand has a value,
\* the right operand is evaluated whatever that value is; when the right
\* operand fails the expression fails in the same way, and when it is not a
\* boolean the expression fails with the operator's error.
C10_NoShortCircuit ==
    (IsEval("And") \/ IsEval("Or")) =>
        LET l == eval(last.node.lhs, last.env, Entered)
        IN  l.tag = "Ok" =>
                LET r == eval(last.node.rhs, last.env, l.w)
                IN  /\ last.res.w = r.w
                    /\ r.tag # "Ok" => last.res = r
                    /\ (r.tag = "Ok" /\ ~IsBool(r.val))
                           => last.res = Err(BoolMsg(last.node.kind), r.w)

\* And(false, r) with an r that fails: the left operand alone decides the
\* logical result, and the failure of r is the result
C10_Witness ==
    /\ IsEval("And")
    /\ last.node.lhs = CFalse
    /\ last.node.rhs = Add(CTrue, CInt(1))
    /\ last.res.tag = "Err"
    /\ last.res.msg = "addition '(+)' is only defined for numbers (integers and real)."

IsArith == last.op = "eval" /\ last.node.kind \in ArithKinds

\* the values of the operands of the last arithmetic expression
LeftOperand == eval(last.node.lhs, last.env, Entered)
RightOperand == eval(last.node.rhs, last.env, LeftOperand.w)
BothEvaluated == LeftOperand.tag = "Ok" /\ RightOperand.tag = "Ok"
IsNum(v) == IsInt(v) \/ IsReal(v)

\* whether the exact result of a op b is an i32 (b # 0 for Div)
ExactFits(k, a, b) ==
    CASE k = "Add" -> ~(b > 0 /\ a > I32Max - b) /\ ~(b < 0 /\ a < I32Min - b)
      [] k = "Sub" -> ~(b < 0 /\ a > I32Max + b) /\ ~(b > 0 /\ a < I32Min + b)
      [] k = "Mul" -> ~MulOverflows(a, b)
      [] k = "Div" -> ~(a = I32Min /\ b = -1)

\* whether q is the exact result of a op b rounded toward zero (b # 0 for
\* Div): for Div, a = q * b + r with r = 0 or of the sign of a, and |r| < |b|
IsExact(k, a, b, q) ==
    /\ ExactFits(k, a, b)
    /\ CASE k = "Add" -> q = a + b
         [] k = "Sub" -> q = a - b
         [] k = "Mul" -> q = a * b
         [] k = "Div" ->
               LET r == a - q * b
               IN  /\ r = 0 \/ Sgn(r) = Sgn(a)
                   /\ IF b > 0 THEN -b < r /\ r < b ELSE b < r /\ b < -r

\* the result is an integer exactly when both operands are integers, and a
\* real when either is a real
KindsAsClaimed ==
    (BothEvaluated /\ IsNum(LeftOperand.val) /\ IsNum(RightOperand.val)) =>
        /\ last.res.tag = "Ok"
        /\ IsInt(last.res.val) <=> (IsInt(LeftOperand.val) /\ IsInt(RightOperand.val))
        /\ (IsReal(LeftOperand.val) \/ IsReal(RightOperand.val)) => IsReal(last.res.val)

\* 10/3 = 3, 21/3 = 7, -7/2 = -3
DivExamples ==
    /\ last.node = Div(CInt(10), CInt(3)) => last.res.val = Exp(CInt(3))
    /\ last.node = Div(CInt(21), CInt(3)) => last.res.val = Exp(CInt(7))
    /\ last.node = Div(CInt(-7), CInt(2)) => last.res.val = Exp(CInt(-3))

IntOperands ==
    /\ BothEvaluated
    /\ IsInt(LeftOperand.val)
    /\ IsInt(RightOperand.val)
    /\ last.node.kind = "Div" => RightOperand.val.exp.v # 0

\* C9 as stated: the result of + - * / is an integer exactly when both
\* operands are integers and a real when either is a real; for two
\* integers a and b (b # 0 for Div) it is the exact result rounded toward
\* zero.
C9_ExactForAllIntegers ==
    IsArith =>
        /\ KindsAsClaimed
        /\ DivExamples
        /\ IntOperands =>
              IsExact(last.node.kind, LeftOperand.val.exp.v, RightOperand.val.exp.v,
                      last.res.val.exp.v)

\* C9 as amended: the same, the integer result being the exact result
\* rounded toward zero whenever that is an i32.
C9_ExactWhenRepresentable ==
    IsArith =>
        /\ KindsAsClaimed
        /\ DivExamples
        /\ (IntOperands
              /\ ExactFits(last.node.kind, LeftOperand.val.exp.v, RightOperand.val.exp.v))
             => IsExact(last.node.kind, LeftOperand.val.exp.v, RightOperand.val.exp.v,
                        last.res.val.exp.v)

\* -7 / 2, where rounding toward zero and rounding down differ
C9_Witness ==
    /\ IsArith
    /\ last.node = Div(CInt(-7), CInt(2))
    /\ last.res.tag = "Ok"
    /\ last.res.val = Exp(CInt(-3))

RelKinds == {"EQ", "GT", "LT", "GTE", "LTE"}
IsRel == last.op = "eval" /\ last.node.kind \in RelKinds

RelMsg(k) ==
    CASE k = "EQ" -> "(==) is only defined for numbers (integers and real)."
      [] k = "GT" -> "(>) is only defined for numbers (integers and real)."
      [] k = "LT" -> "(<) is only defined for numbers (integers and real)."
      [] k = "GTE" -> "(>=) is only defined for numbers (integers and real)."
      [] k = "LTE" -> "(<=) is only defined for numbers (integers and real)."

\* C11: a relational operator whose operands both evaluate to numbers, in
\* any combination of integer and real, returns a boolean constant; with
\* any other pair of operand values (strings, booleans, functions, equal or
\* not) it fails with its numeric-only error and returns no boolean.
C11_RelationalNumericOnly ==
    (IsRel /\ BothEvaluated) =>
        IF IsNum(LeftOperand.val) /\ IsNum(RightOperand.val)
        THEN last.res.tag = "Ok" /\ IsBool(last.res.val)
        ELSE last.res = Err(RelMsg(last.node.kind), RightOperand.w)

\* == applied to a function and itself
C11_Witness ==
    /\ IsRel
    /\ last.node = EQ(Var("f"), Var("f"))
    /\ LeftOperand.tag = "Ok"
    /\ LeftOperand.val.tag = "Func"
    /\ last.res.tag = "Err"

\* the names the programs of the driver use
Names == {"x", "y", "z", "n", "f", "g", "h", "k", "free", "shadow", "swap", "fib", "fibonacci"}

\* a world to resolve names in: lookup neither reads nor changes it
NoWorld == [fs |-> <<>>, out |-> <<>>, trace |-> <<>>]

\* C12: when e evaluates to v in env, executing Assignment(x, e) yields
\* Continue(env2) where resolving x, by lookup and by the non-failing
\* search_frame, gives exactly v, and every other name resolves in env2 as
\* it does in env.
C12_AssignmentRoundTrip ==
    IsExec("Assignment") =>
        LET v == eval(last.node.exp, last.env, Entered)
        IN  v.tag = "Ok" =>
              /\ Continued(last.res)
              /\ lookup(last.node.name, last.res.val.env, NoWorld) = Ok(v.val, NoWorld)
              /\ search_frame(last.res.val.env, last.node.name) = Some(v.val)
              /\ \A m \in Names \ {last.node.name} :
                    /\ search_frame(last.res.val.env, m) = search_frame(last.env, m)
                    /\ lookup(m, last.res.val.env, NoWorld) = lookup(m, last.env, NoWorld)

\* x = 3 executed where x was 1 and y was bound
C12_Witness ==
    /\ IsExec("Assignment")
    /\ last.node = Assignment("x", CInt(3))
    /\ IsBound(last.env, "x", 1)
    /\ IsBound(last.env, "y", 0)
    /\ IsBound(env, "x", 3)
    /\ IsBound(env, "y", 0)

\* n(n+1)/2, and whether it is an i32 (computed without leaving the i32s)
Triangular(n) == IF n % 2 = 0 THEN (n \div 2) * (n + 1) ELSE n * ((n + 1) \div 2)
TriangularFits(n) ==
    IF n % 2 = 0 THEN (n \div 2) <= I32Max \div (n + 1)
    ELSE (n + 1) \div 2 <= I32Max \div n

SumDone == last.op = "done"

\* while the loop runs, x counts the passes left and the value held is
\* that of x > 0: the next pass executes the body or ends the loop, which
\* ends after n passes of the body
SumProgress ==
    pc = "loop" =>
        /\ last.iters <= last.n
        /\ IsBound(env, "x", last.n - last.iters)
        /\ last.value = Exp(Bool(last.iters < last.n))

\* the loop ended with Continue after exactly n passes, with x = 0
SumEnded ==
    SumDone =>
        /\ Continued(last.res)
        /\ last.iters = last.n
        /\ IsBound(last.res.val.env, "x", 0)
        /\ last.n = 10 => IsBound(last.res.val.env, "y", 55)

\* C13 as stated: for every n >= 0 the program x = n; y = 0; while x > 0
\* { y = y + x; x = x - 1 } terminates with Continue after exactly n passes
\* of the body, with x = 0 and y = n(n+1)/2.
C13_SummationForEveryN ==
    /\ SumProgress
    /\ SumEnded
    /\ SumDone => (/\ TriangularFits(last.n)
                   /\ IsBound(last.res.val.env, "y", Triangular(last.n)))

\* C13 as amended: the same, with y = n(n+1)/2 when that is an i32 and
\* y = 2^31 - 1 when it is not.
C13_SummationSaturating ==
    /\ SumProgress
    /\ SumEnded
    /\ SumDone => IF TriangularFits(last.n)
                  THEN IsBound(last.res.val.env, "y", Triangular(last.n))
                  ELSE IsBound(last.res.val.env, "y", I32Max)

\* n = 10: ten passes, x = 0 and y = 55
C13_Witness ==
    /\ SumDone
    /\ last.n = 10
    /\ last.iters = 10
    /\ IsBound(env, "x", 0)
    /\ IsBound(env, "y", 55)

\* the recurrence fibonacci computes
RECURSIVE FibRec(_)
FibRec(n) ==
    IF n < 1 THEN 0
    ELSE IF n <= 2 THEN n - 1
    ELSE FibRec(n - 1) + FibRec(n - 2)

\* C14: with fibonacci defined at top level, the call fibonacci(n)
\* terminates and returns the value of the recurrence for every n of
\* FibInputs: every nested call resolves the name of the function and its
\* own n.  The program that defines fibonacci and assigns fibonacci(5) to
\* fib ends with fib = 3.
C14_RecursiveSelfReference ==
    /\ (IsEval("FuncCall") /\ last.node.name = "fibonacci" /\ Callee = Some(Func(Fibonacci)))
          => \A n \in FibInputs :
                last.node.args = <<CInt(n)>> => last.res = Ok(Exp(CInt(FibRec(n))), last.res.w)
    /\ (IsExec("Sequence") /\ last.node.s1 = FuncDef(Fibonacci))
          => (Continued(last.res) /\ IsBound(last.res.val.env, "fib", FibRec(5)))

\* the executions of the body of fibonacci in the last call
BodyRuns == SelectSeq(trace, LAMBDA ev : ev.op = "execute" /\ ev.node = Fibonacci.body.v)

\* fibonacci(5) = 3, in 9 calls
C14_Witness ==
    /\ IsEval("FuncCall")
    /\ last.node = FuncCall("fibonacci", <<CInt(5)>>)
    /\ last.res.tag = "Ok"
    /\ last.res.val = Exp(CInt(3))
    /\ Len(BodyRuns) = 9

\* C15: eval leaves the environment of its caller as it was, whatever the
\* expression calls; a statement executed at the root yields a Continue
\* environment with the same frames and the root as the current frame; the
\* parameters bound and the names assigned in a callee's frame are not in
\* the caller's environment after the call.
C15_EvalLeavesEnvironment ==
    /\ last.op = "eval" => env = last.env
    /\ (last.op = "execute" /\ Continued(last.res)) =>
          /\ scope_key(last.res.val.env) = scope_key(last.env)
          /\ Len(last.res.val.env.stack) = Len(last.env.stack)
    /\ (IsExec("Assignment") /\ Continued(last.res)) =>
          \A m \in Names \ {last.node.name} :
              search_frame(last.res.val.env, m) = search_frame(last.env, m)

\* y = k(x) with x = 1: the callee bound n = 1 and assigned x = 11 in its
\* frame; the caller has y = 11, x = 1 and no n
C15_Witness ==
    /\ IsExec("Assignment")
    /\ last.node = Assignment("y", FuncCall("k", <<X>>))
    /\ IsBound(last.env, "x", 1)
    /\ IsBound(env, "y", 11)
    /\ IsBound(env, "x", 1)
    /\ ~search_frame(env, "n").some
    /\ scope_key(env) = scope_key(Environment_new)

ConstantKinds == {"CTrue", "CFalse", "CInt", "CReal", "CString"}

\* a Function value or one of the constants
IsReduced(v) == v.tag = "Func" \/ (v.tag = "Exp" /\ v.exp.kind \in ConstantKinds)

\* every value bound in every frame of e is reduced
AllReduced(e) ==
    \A i \in 1 .. Len(e.stack) :
        \A name \in DOMAIN e.stack[i].variables : IsReduced(e.stack[i].variables[name])

\* C16: in every environment the driver reaches, every value bound in
\* every frame is a Function value or a constant; every successful eval,
\* every Return signal and every Continue environment carries such values
\* only.
C16_OnlyReducedValues ==
    /\ AllReduced(env)
    /\ (last.op = "eval" /\ last.res.tag = "Ok") => IsReduced(last.res.val)
    /\ (last.op = "execute" /\ Returned(last.res)) => IsReduced(last.res.val.val)
    /\ (last.op = "execute" /\ Continued(last.res)) => AllReduced(last.res.val.env)

\* y = x + 1 with x = 1 stored the constant 2, next to a Function value
C16_Witness ==
    /\ IsExec("Assignment")
    /\ last.node = Assignment("y", Add(X, CInt(1)))
    /\ IsBound(env, "y", 2)
    /\ \E name \in DOMAIN env.stack[1].variables : env.stack[1].variables[name].tag = "Func"

\* whether name resolves to the function func at the last call site
Defined(name, func) == search_frame(last.env, name) = Some(Func(func))

\* C17: the frame pushed for a call has the caller's current frame as its
\* parent: free(), whose body uses x without binding it, returns the x of
\* its call site -- the root's x when called from the root, the parameter
\* x = 5 of shadow when called from shadow(5), whatever x is at the root
\* where free was defined -- and the parameter x of shadow hides the
\* caller's x during the call only.
C17_DynamicScoping ==
    /\ (IsEval("FuncCall") /\ last.node = FuncCall("free", <<>>)
            /\ Defined("free", FunFree) /\ search_frame(last.env, "x").some)
          => last.res = Ok(search_frame(last.env, "x").v, last.res.w)
    /\ (IsEval("FuncCall") /\ last.node = FuncCall("shadow", <<CInt(5)>>)
            /\ Defined("free", FunFree) /\ Defined("shadow", FunShadow))
          => /\ last.res = Ok(Exp(CInt(5)), last.res.w)
             /\ search_frame(env, "x") = search_frame(last.env, "x")

\* shadow(5) called where x = 1: free() returned 5, and x is 1 afterwards
C17_Witness ==
    /\ IsEval("FuncCall")
    /\ last.node = FuncCall("shadow", <<CInt(5)>>)
    /\ IsBound(last.env, "x", 1)
    /\ last.res.tag = "Ok"
    /\ last.res.val = Exp(CInt(5))
    /\ IsBound(env, "x", 1)

\* the value of the i-th argument of the last call in the caller's environment
ArgValue(i) == eval(last.node.args[i], last.env, Entered)
ArgsHaveValues ==
    \A i \in 1..Len(last.node.args) :
        ArgValue(i).tag = "Ok" /\ ArgValue(i).val.tag = "Exp"
\* the last call with every argument replaced by its value at the call site
CallByValue ==
    call_func(Callee.v.func, [i \in 1..Len(last.node.args) |-> ArgValue(i).val.exp],
              last.env, Entered)
SameOutcome(r1, r2) ==
    /\ r1.tag = r2.tag
    /\ r1.tag = "Ok" => r1.val = r2.val
    /\ r1.tag = "Err" => r1.msg = r2.msg

\* C18: a call f(a1, ..., ak) whose arguments have values v1, ..., vk in
\* the caller's environment has the outcome of the call f(v1, ..., vk):
\* every parameter is bound to the value of its argument at the call site,
\* also when a later argument mentions the name of an earlier parameter.
C18_ArgumentsInCallerEnvironment ==
    (IsEval("FuncCall") /\ CalleeIsFunc /\ Callee.v.func.params.some
        /\ Len(last.node.args) = NParams(Callee.v.func) /\ ArgsHaveValues)
      => SameOutcome(last.res, CallByValue)

BinaryKinds == ArithKinds \cup {"And", "Or"} \cup RelKinds
IsBinary == last.op = "eval" /\ last.node.kind \in BinaryKinds
\* what the right operand of the last expression would give on its own
RightAlone == eval(last.node.rhs, last.env, Entered)

\* C19: in every arithmetic, boolean and relational operator the left
\* operand is evaluated first and completely: when it fails the operator
\* ends exactly as the left operand did, with its error and with no step
\* of the right operand taken (also when the right operand would fail
\* too); when it has a value the right operand is evaluated in the world
\* the left operand left, and its failure is the operator's.
C19_LeftOperandFirst ==
    IsBinary =>
        /\ LeftOperand.tag # "Ok" => last.res = LeftOperand
        /\ LeftOperand.tag = "Ok" =>
              /\ last.res.w = RightOperand.w
              /\ RightOperand.tag # "Ok" => last.res = RightOperand

\* (true + 1) + read_file("none.txt"): both operands fail on their own,
\* the addition's error is reported and no file was read
C19_Witness ==
    /\ IsEval("Add")
    /\ last.node = Add(Add(CTrue, CInt(1)), ReadFile(CString("none.txt")))
    /\ RightAlone.tag = "Err"
    /\ last.res.tag = "Err"
    /\ last.res.msg = "addition '(+)' is only defined for numbers (integers and real)."
    /\ last.res.msg # RightAlone.msg
    /\ \A i \in 1..Len(trace) : trace[i].node.kind # "ReadFile"

\* whether the exact result of a op b lies above the i32 range (when it
\* does not fit; b # 0 for Div)
AboveRange(k, a, b) ==
    CASE k = "Add" -> b > 0
      [] k = "Sub" -> b < 0
      [] k = "Mul" -> Sgn(a) * Sgn(b) > 0
      [] k = "Div" -> TRUE

\* what the claim gives for the integers a op b when the exact result is
\* no i32: the clamped bound, and for a / 0 the bound of the sign of a
Clamped(k, a, b) ==
    IF k = "Div" /\ b = 0
    THEN (IF a > 0 THEN I32Max ELSE IF a < 0 THEN I32Min ELSE 0)
    ELSE (IF AboveRange(k, a, b) THEN I32Max ELSE I32Min)

TwoIntegers ==
    BothEvaluated /\ IsInt(LeftOperand.val) /\ IsInt(RightOperand.val)

\* C20: + - * / on two integers always return Ok with an integer between
\* -2^31 and 2^31-1; an exact result beyond that range gives the bound it
\* passed (no wrap-around), and a / 0 gives 2^31-1 for a > 0, -2^31 for
\* a < 0 and 0 for a = 0.
C20_IntegerArithmeticSaturates ==
    (IsArith /\ TwoIntegers) =>
        /\ last.res.tag = "Ok"
        /\ IsInt(last.res.val)
        /\ last.res.val.exp.v \in I32Min..I32Max
        /\ LET k == last.node.kind
               a == LeftOperand.val.exp.v
               b == RightOperand.val.exp.v
           IN  ((k = "Div" /\ b = 0) \/ ~ExactFits(k, a, b))
                  => last.res.val.exp.v = Clamped(k, a, b)

\* -7 / 0 is -2^31
C20_Witness ==
    /\ IsArith
    /\ last.node = Div(CInt(-7), CInt(0))
    /\ last.res.tag = "Ok"
    /\ last.res.val = Exp(CInt(I32Min))

====
